---------------------------- MODULE Spec2Model ----------------------------
(***************************************************************************)
(* DepthVision: the depth-displaced 3D viewer (ThreeDeeCanvas) as a state  *)
(* machine.  One viewer instance is modelled: its props, its refs, its     *)
(* React state, the Scene's mesh children, the texture loads in flight,    *)
(* the capture sessions of the video export, the camera and the viewport.  *)
(* The page hosting the viewer (DepthVisionPage) and the server action it   *)
(* calls (fetchImageAsDataUrl) are modelled beside it.                     *)
(***************************************************************************)
EXTENDS Integers, Sequences, FiniteSets, TLC

\* ---------------------------------------------------------------- bounds
\* Distinct non-null URIs a prop can take (0 stands for null).
NumUris == 2
\* Valid input pairs supplied over the life of the viewer (one load each).
MaxLoads == 2
\* The same, when every load settles before the inputs change again.
MaxSeqLoads == 3
\* Video exports started over the life of the viewer.
MaxSessions == 2
\* Milliseconds by which one modelled advance of the wall clock moves Date.now().
ClockStep == 2000
\* Widths and heights (in hundreds of pixels) the hosting surface can take.
NumViewports == 2
\* Valid input pairs supplied while the view controls are exercised.
MaxViewLoads == 2
\* Screenshots taken over the life of the viewer.
MaxStills == 2
\* Valid input pairs supplied while the built geometry is examined.
MaxGeometryLoads == 2
\* Valid input pairs supplied while presets and zoom are exercised.
MaxCameraLoads == 1
\* Clicks on the zoom-in and on the zoom-out button over the life of the viewer.
MaxZoomIns == 16
MaxZoomOuts == 2
\* The length, in thousandths, of the one pan a drag on the canvas makes.
PanStep == 300
\* Pans of the canvas over the life of the viewer.
MaxPans == 1
\* Zoom clicks followed where the canvas is also dragged.
MaxOrbitZooms == 2
\* Distinct images the user has at hand (on disk or behind a URL).
NumImages == 2
\* Progress timers of the page that can be left running.
MaxIntervals == 2

\* ------------------------------------------------------ program constants
\* const duration = 5000; // 5 seconds
duration == 5000
\* Math.PI * 2, one full rotation; yaw is kept in degrees.
FullTurn == 360
\* Lengths are in thousandths of a world unit.
\* cameraRef.current.position.z = 1.5;
InitialCameraZ == 1500
\* const planeWidth = 2; // Arbitrary width
planeWidth == 2000
\* 2 * Math.tan(fov / 2) for the camera's fov of 75 degrees, in thousandths.
TwoTanHalfFov == 1535
\* * 1.1 for a bit of margin, in thousandths.
FitMargin == 1100
\* distance > 0.1 ? distance : 1.5 in setPresetView.
MinPresetDistance == 100
\* The 0.001 offset of the top preset.
TopOffset == 1
\* new THREE.PlaneGeometry(planeWidth, planeHeight, 255, ...)
widthSegments == 255
\* handleZoom(1.2) and handleZoom(0.8), in thousandths.
ZoomInFactor == 1200
ZoomOutFactor == 800
\* controls.minDistance of the OrbitControls as constructed: never set.
minDistance == 0
\* buffer.byteLength > 10 * 1024 * 1024 in fetchImageAsDataUrl.
MaxProxyBytes == 10485760

VARIABLES
    mounted,          \* the component is mounted
    originalImageUri, \* prop, 0 = null
    depthMapUri,      \* prop, 0 = null
    rendererRef,      \* 0 = null, else the renderer object
    sceneRef,         \* 0 = null, else the Scene object
    cameraRef,        \* 0 = null, else the camera object
    controlsRef,      \* 0 = null, else the OrbitControls object
    sceneLights,      \* the lights added to the Scene
    meshes,           \* every Mesh ever constructed, in order of construction
    sceneChildren,    \* indices of the meshes attached to the Scene
    meshRef,          \* 0 = null, else index of the current Mesh
    loads,            \* every Promise.all([loadAsync, loadAsync]) issued
    isLoadingAssets,  \* React state
    isRecording,      \* React state
    recorderRef,      \* 0 = null, else index of the session whose encoder it holds
    sessions,         \* every capture session started (startRecording calls)
    exportBusy,       \* last value handed to onExportLoadingChange (host isExporting)
    rendererDisposed, \* renderer.dispose() has been called
    controlsDisposed, \* controls.dispose() has been called
    resizeListener,   \* handleResize is registered on window
    viewport,         \* <<clientWidth, clientHeight>> of the mount element
    rendererSize,     \* size last given to renderer.setSize, <<0, 0>> before
    cameraAspect,     \* camera.aspect as <<width, height>>, <<0, 0>> before
    cameraPosition,   \* camera.position, <<x, y, z>>
    controlsTarget,   \* controls.target, <<x, y, z>>
    pngDownloads,     \* clicks on the depthvision_render.png link
    gestures,         \* <<clicks on zoom-in, clicks on zoom-out, pans>> so far
    animateChains,    \* requestAnimationFrame(animate) chains that are scheduled
    \* The hosting page (DepthVisionPage) and the server action it calls.
    hostVersion,      \* which of the two sources of the page is running
    originalImage,    \* React state, 0 = null, else the medium shown
    depthMapImage,    \* React state, 0 = null, else the image its depth map is of
    isLoading,        \* React state
    isExporting,      \* React state, set by the viewer's onExportLoadingChange
    imageUrl,         \* React state, the text of the URL field
    progress,         \* React state, 0..100
    error,            \* React state, "" = null, else the message
    isDragging,       \* React state
    readers,          \* media whose FileReader.readAsDataURL has not fired onload yet
    urlLoad,          \* <<>> or <<url>>: the handleImageUrlLoad call awaiting the fetch
    generation,       \* <<>> or <<photo>>: the handleGenerateDepthMap call awaiting the service
    progressIntervals,\* setInterval timers of handleGenerateDepthMap not cleared
    proxyCall         \* one call of fetchImageAsDataUrl: its inputs and its result

vars == <<mounted, originalImageUri, depthMapUri, rendererRef, sceneRef, cameraRef,
          controlsRef, sceneLights, meshes, sceneChildren, meshRef, loads,
          isLoadingAssets, isRecording, recorderRef, sessions, exportBusy,
          rendererDisposed, controlsDisposed, resizeListener, viewport,
          rendererSize, cameraAspect, cameraPosition, controlsTarget, pngDownloads,
          gestures, animateChains, hostVersion, originalImage, depthMapImage,
          isLoading, isExporting, imageUrl, progress, error, isDragging, readers,
          urlLoad, generation, progressIntervals, proxyCall>>

propsVars == <<originalImageUri, depthMapUri>>
contextVars == <<rendererRef, sceneRef, cameraRef, controlsRef, sceneLights>>
meshVars == <<meshes, sceneChildren, meshRef>>
recordVars == <<isRecording, recorderRef, sessions, exportBusy>>
releaseVars == <<rendererDisposed, controlsDisposed, animateChains>>
surfaceVars == <<viewport, rendererSize, cameraAspect>>
cameraVars == <<cameraPosition, controlsTarget>>
hostVars == <<hostVersion, originalImage, depthMapImage, isLoading, isExporting,
              imageUrl, progress, error, isDragging, readers, urlLoad, generation,
              progressIntervals>>
outerVars == <<hostVars, proxyCall>>
viewVars == <<releaseVars, resizeListener, surfaceVars, cameraVars, pngDownloads,
              gestures, outerVars>>
viewerVars == <<mounted, propsVars, contextVars, meshVars, loads, isLoadingAssets,
                recordVars, releaseVars, resizeListener, surfaceVars, cameraVars,
                pngDownloads, gestures>>

Origin == <<0, 0, 0>>

\* const hasContent = originalImageUri && depthMapUri;
hasContent == originalImageUri # 0 /\ depthMapUri # 0

\* ------------------------------------------------- fetchImageAsDataUrl
\* Strings the code looks into are sequences: URLs of characters, content
\* types of the pieces the code tells apart.
StartsWith(str, prefix) ==
    Len(str) >= Len(prefix) /\ SubSeq(str, 1, Len(prefix)) = prefix

HttpPrefix == <<"h", "t", "t", "p", ":", "/", "/">>
HttpsPrefix == <<"h", "t", "t", "p", "s", ":", "/", "/">>

\* The texts the URL field can hold: empty, blank, and URLs with and without
\* an accepted scheme and an image extension.
Urls ==
    { <<>>,
      <<" ">>,
      HttpPrefix \o <<"a", ".", "p", "n", "g">>,
      HttpsPrefix \o <<"a", ".", "p", "n", "g">>,
      HttpsPrefix \o <<"a">>,
      <<"f", "t", "p", ":", "/", "/", "a", ".", "p", "n", "g">>,
      <<"H", "T", "T", "P", ":", "/", "/", "a", ".", "p", "n", "g">>,
      <<"a", ".", "p", "n", "g">> }

\* String.prototype.toLowerCase on the pieces of a content type.
LowerPiece(piece) ==
    CASE piece = "IMAGE" -> "image"
      [] piece = "PNG" -> "png"
      [] piece = "JPEG" -> "jpeg"
      [] OTHER -> piece

toLowerCase(str) == [i \in 1..Len(str) |-> LowerPiece(str[i])]

\* response.headers.get('content-type'): <<>> is null (or the empty string).
ContentTypes ==
    { <<>>,
      <<"image", "/", "png">>,
      <<"image", "/", "jpeg">>,
      <<"image", "/", "svg+xml">>,
      <<"image", "/", "PNG">>,
      <<"IMAGE", "/", "png">>,
      <<"image", "/", "bmp">>,
      <<"image", "/", "png", ";", "charset=utf-8">>,
      <<"text", "/", "html">> }

allowedImageTypes ==
    { <<"image", "/", "jpeg">>, <<"image", "/", "png">>, <<"image", "/", "gif">>,
      <<"image", "/", "webp">>, <<"image", "/", "svg+xml">> }

\* What fetch and the reading of the body can do.  thrown values are
\* [isError, name, timedOut]: an Error or not, its name, and whether its
\* message includes 'timed out'.
Thrown ==
    { [isError |-> TRUE, name |-> "TypeError", timedOut |-> FALSE],
      [isError |-> TRUE, name |-> "TimeoutError", timedOut |-> FALSE],
      [isError |-> TRUE, name |-> "AbortError", timedOut |-> FALSE],
      [isError |-> TRUE, name |-> "Error", timedOut |-> TRUE],
      [isError |-> FALSE, name |-> "", timedOut |-> FALSE] }

BodySizes == {0, MaxProxyBytes, MaxProxyBytes + 1}

NoResponse == [ok |-> FALSE, contentType |-> <<>>, bodyThrows |-> FALSE, byteLength |-> 0]

FetchOutcomes ==
    { [fetchThrows |-> TRUE, thrown |-> t, response |-> NoResponse] : t \in Thrown }
    \cup
    { [fetchThrows |-> FALSE, thrown |-> t,
       response |-> [ok |-> ok, contentType |-> ct, bodyThrows |-> bt, byteLength |-> n]] :
         t \in {[isError |-> TRUE, name |-> "TypeError", timedOut |-> FALSE]},
         ok \in BOOLEAN, ct \in ContentTypes, bt \in BOOLEAN, n \in BodySizes }

Failure(message) == [success |-> FALSE, error |-> message]

\* The try block: what it returns, or what it throws.
ProxyTry(url, outcome) ==
    LET response == outcome.response
        contentType == response.contentType
    IN  IF ~StartsWith(url, HttpPrefix) /\ ~StartsWith(url, HttpsPrefix)
        THEN [returns |-> TRUE,
              value |-> Failure("Invalid URL. Must start with http:// or https://")]
        ELSE IF outcome.fetchThrows
        THEN [returns |-> FALSE, thrown |-> outcome.thrown]
        ELSE IF ~response.ok
        THEN [returns |-> TRUE, value |-> Failure("Failed to fetch image")]
        ELSE IF contentType = <<>> \/ ~StartsWith(contentType, <<"image", "/">>)
        THEN [returns |-> TRUE,
              value |-> Failure("URL does not point to a valid image type")]
        ELSE IF toLowerCase(contentType) \notin allowedImageTypes
        THEN [returns |-> TRUE, value |-> Failure("Unsupported image type")]
        ELSE IF response.bodyThrows
        THEN [returns |-> FALSE, thrown |-> outcome.thrown]
        ELSE IF response.byteLength > MaxProxyBytes
        THEN [returns |-> TRUE, value |-> Failure("Image size exceeds 10MB limit.")]
        ELSE [returns |-> TRUE,
              value |-> [success |-> TRUE,
                         dataUri |-> [mime |-> contentType,
                                      bytes |-> response.byteLength]]]

\* The catch block.
ProxyCatch(thrown) ==
    IF thrown.isError
    THEN IF thrown.name = "AbortError" \/ thrown.timedOut
         THEN Failure("Failed to load image: Request timed out.")
         ELSE Failure("Failed to load image from URL")
    ELSE Failure("An unknown error occurred while fetching the image.")

\* The function without its catch block: what the try block throws rejects
\* the promise.
fetchImageAsDataUrl_NoCatch(url, outcome) ==
    LET tried == ProxyTry(url, outcome)
    IN  IF tried.returns
        THEN [settled |-> "resolved", value |-> tried.value]
        ELSE [settled |-> "rejected", value |-> Failure("")]

\* fetchImageAsDataUrl(imageUrl), with what the network does as outcome.
fetchImageAsDataUrl(url, outcome) ==
    LET tried == ProxyTry(url, outcome)
    IN  IF tried.returns
        THEN [settled |-> "resolved", value |-> tried.value]
        ELSE [settled |-> "resolved", value |-> ProxyCatch(tried.thrown)]

ProxyIdle == [state |-> "idle"]

\* The server action is called.
ProxyCalled(url, outcome) ==
    /\ proxyCall = ProxyIdle
    /\ proxyCall' = [state |-> "pending", url |-> url, outcome |-> outcome]
    /\ UNCHANGED <<viewerVars, hostVars>>

\* Its promise settles.
ProxySettled ==
    /\ proxyCall.state = "pending"
    /\ proxyCall' = [state |-> "settled", url |-> proxyCall.url,
                     outcome |-> proxyCall.outcome,
                     result |-> fetchImageAsDataUrl(proxyCall.url, proxyCall.outcome)]
    /\ UNCHANGED <<viewerVars, hostVars>>

\* ------------------------------------------------------------ cleanupScene
\* The Mesh cleanupScene acts on: the current one, when a Scene exists.
cleanupTarget == IF meshRef # 0 /\ sceneRef # 0 THEN meshRef ELSE 0

\* Disposed, but the two textures the material holds are left alone.
Disposed_KeepsTextures(m) ==
    [m EXCEPT !.geometryDisposed = TRUE, !.materialDisposed = TRUE]

\* A mesh after geometry.dispose(), material.map.dispose(),
\* material.displacementMap.dispose() and material.dispose().
Disposed(m) ==
    [m EXCEPT !.geometryDisposed = TRUE,
              !.mapDisposed = (m.map # 0),
              !.displacementMapDisposed = (m.displacementMap # 0),
              !.materialDisposed = TRUE]

\* cleanupScene, but the Mesh is only detached: nothing is disposed.
cleanupScene_DetachOnly ==
    IF cleanupTarget # 0
    THEN /\ sceneChildren' = sceneChildren \ {meshRef}
         /\ meshRef' = 0
         /\ UNCHANGED meshes
    ELSE UNCHANGED meshVars

\* A Mesh no reference is left to: it is garbage, and its transform is dropped
\* from the state.
Unreferenced(m) == [m EXCEPT !.rotationY = 0]

cleanupScene ==
    IF cleanupTarget # 0
    THEN /\ sceneChildren' = sceneChildren \ {meshRef}
         /\ meshes' = [meshes EXCEPT ![meshRef] = Unreferenced(Disposed(meshes[meshRef]))]
         /\ meshRef' = 0
    ELSE UNCHANGED meshVars

\* ------------------------------------------------------- the input effect
\* Lazy initialisation of scene, camera, renderer, lights and controls, sized
\* to the mount element; when they exist, the renderer size and the camera
\* aspect are brought up to date.
InitContext ==
    IF rendererRef = 0
    THEN /\ sceneRef' = 1
         /\ cameraRef' = 1
         /\ cameraAspect' = viewport
         /\ cameraPosition' = <<0, 0, InitialCameraZ>>
         /\ rendererRef' = 1
         /\ rendererSize' = viewport
         /\ sceneLights' = {"ambient", "directional"}
         /\ controlsRef' = 1
         /\ controlsTarget' = Origin
    ELSE /\ rendererSize' = viewport
         /\ cameraAspect' = IF cameraRef # 0 THEN viewport ELSE cameraAspect
         /\ UNCHANGED <<contextVars, cameraVars>>

\* One Promise.all over the two loadAsync calls.  previousMesh is history, not
\* program state: the Mesh that was current when the pair was supplied.
NewLoad ==
    [originalTexture |-> "pending", depthTexture |-> "pending",
     promise |-> "pending", previousMesh |-> meshRef]

\* The effect run for props that form a valid pair.
RunEffectValidPair(o, d) ==
    /\ mounted
    /\ o # 0 /\ d # 0
    /\ <<o, d>> # <<originalImageUri, depthMapUri>>
    /\ originalImageUri' = o
    /\ depthMapUri' = d
    /\ isLoadingAssets' = TRUE
    /\ InitContext
    /\ cleanupScene
    /\ loads' = Append(loads, NewLoad)
    /\ resizeListener' = TRUE
    /\ animateChains' = animateChains + 1     \* animate(): no chain is ever cancelled
    /\ UNCHANGED <<mounted, recordVars, rendererDisposed, controlsDisposed, viewport,
                   pngDownloads, gestures, outerVars>>

EffectValidPair(o, d) ==
    /\ Len(loads) < MaxLoads
    /\ RunEffectValidPair(o, d)

\* The effect run for props of which one is null.
EffectNullInput(o, d) ==
    /\ mounted
    /\ (o = 0 \/ d = 0)
    /\ <<o, d>> # <<originalImageUri, depthMapUri>>
    /\ originalImageUri' = o
    /\ depthMapUri' = d
    /\ cleanupScene
    /\ resizeListener' = FALSE
    /\ UNCHANGED <<mounted, contextVars, loads, isLoadingAssets, recordVars,
                   releaseVars, surfaceVars, cameraVars, pngDownloads, gestures,
                   outerVars>>

\* ------------------------------------------------------------ texture loads
\* The <<width, height>> in pixels a colour image can have.
ImageAspects == {<<1920, 1080>>, <<1080, 1920>>}

\* const planeHeight = planeWidth / imageAspect, for an image of size a.
PlaneHeight(a) == (planeWidth * a[2]) \div a[1]

Max(x, y) == IF x >= y THEN x ELSE y

\* Math.max(planeWidth, planeHeight) / (2 * Math.tan(fov / 2)) * 1.1
FitDistance(w, h) == (((Max(w, h) * 1000) \div TwoTanHalfFov) * FitMargin) \div 1000

\* Math.round(255 * imageAspect): the aspect multiplied instead of divided by.
HeightSegments_Inverted(a) == (2 * widthSegments * a[1] + a[2]) \div (2 * a[2])

\* Math.round(255 / imageAspect), but rounded up.
HeightSegments_Ceil(a) == (widthSegments * a[2] + a[1] - 1) \div a[1]

\* Math.round(255 / imageAspect) for an image of size a: the nearest integer,
\* a half rounded up.
HeightSegments(a) == (2 * widthSegments * a[2] + a[1]) \div (2 * a[1])

\* new THREE.PlaneGeometry(planeWidth, planeHeight, 255, Math.round(255 / imageAspect))
PlaneGeometry(a) ==
    [width |-> planeWidth, height |-> PlaneHeight(a),
     widthSegments |-> widthSegments, heightSegments |-> HeightSegments(a)]

\* The Mesh built for load i, whose colour image is of size a.
NewMesh(i, a) ==
    [load |-> i, map |-> i, displacementMap |-> i,
     image |-> a, geometry |-> PlaneGeometry(a),
     geometryDisposed |-> FALSE, materialDisposed |-> FALSE,
     mapDisposed |-> FALSE, displacementMapDisposed |-> FALSE,
     rotationY |-> 0]

\* Fulfilled as soon as one of the two textures is there.
AllLoaded_Either(l) == l.originalTexture = "loaded" \/ l.depthTexture = "loaded"

\* Promise.all is fulfilled once both textures of the load are there.
AllLoaded(l) == l.originalTexture = "loaded" /\ l.depthTexture = "loaded"

\* The .then handler: construct the Mesh and attach it to the Scene.
\* The .then handler: construct the Mesh for the colour image that arrived (of
\* size a), attach it to the Scene and move the camera to fit the plane.
ThenHandler(i, a) ==
    /\ meshes' = Append(meshes, NewMesh(i, a))
    /\ meshRef' = Len(meshes) + 1
    /\ sceneChildren' = sceneChildren \cup {Len(meshes) + 1}
    /\ IF cameraRef # 0
       THEN /\ cameraPosition' =
                  [cameraPosition EXCEPT ![3] = FitDistance(planeWidth, PlaneHeight(a))]
            /\ controlsTarget' = IF controlsRef # 0 THEN Origin ELSE controlsTarget
       ELSE UNCHANGED cameraVars
    /\ isLoadingAssets' = IF mounted THEN FALSE ELSE isLoadingAssets

\* The .catch handler, but the loading indicator is left as it is.
CatchHandler_KeepsLoading ==
    /\ UNCHANGED isLoadingAssets
    /\ UNCHANGED <<meshVars, cameraVars>>

\* The .catch handler.
CatchHandler ==
    /\ isLoadingAssets' = IF mounted THEN FALSE ELSE isLoadingAssets
    /\ UNCHANGED <<meshVars, cameraVars>>

\* One loadAsync of load i resolves, the colour image being of size a.  (Once
\* Promise.all has been rejected the other loadAsync has no handler left: its
\* settling changes nothing and is no step of the model.)
TextureLoadedAs(i, which, a) ==
    /\ i \in 1..Len(loads)
    /\ loads[i].promise = "pending"
    /\ loads[i][which] = "pending"
    /\ LET l == [loads[i] EXCEPT ![which] = "loaded"] IN
       IF AllLoaded(l)
       THEN /\ loads' = [loads EXCEPT ![i] = [l EXCEPT !.promise = "fulfilled"]]
            /\ ThenHandler(i, a)
       ELSE /\ loads' = [loads EXCEPT ![i] = l]
            /\ UNCHANGED <<meshVars, isLoadingAssets, cameraVars>>
    /\ UNCHANGED <<mounted, propsVars, contextVars, recordVars, releaseVars,
                   resizeListener, surfaceVars, pngDownloads, gestures, outerVars>>

\* The same for a colour image of 1920 by 1080: the size of the image bears on
\* the camera and on nothing else.
TextureLoaded(i, which) == TextureLoadedAs(i, which, <<1920, 1080>>)

\* One loadAsync of load i rejects: Promise.all is rejected with it.
TextureFailed(i, which) ==
    /\ i \in 1..Len(loads)
    /\ loads[i].promise = "pending"
    /\ loads[i][which] = "pending"
    /\ loads' = [loads EXCEPT ![i] = [@ EXCEPT ![which] = "failed", !.promise = "rejected"]]
    /\ CatchHandler
    /\ UNCHANGED <<mounted, propsVars, contextVars, recordVars, releaseVars,
                   resizeListener, surfaceVars, pngDownloads, gestures, outerVars>>

\* ------------------------------------------------------------ video export
\* The export buttons without the isRecording test.
ExportButtonEnabled_IgnoresRecording == mounted /\ hasContent

\* disabled={!hasContent || isRecording} on the export buttons.
ExportButtonEnabled == mounted /\ hasContent /\ ~isRecording

\* yaw = initialRotationY + (elapsedTime / duration) * Math.PI * 2, in degrees.
\* The yaw turning the other way.
RotationAt_Backwards(initial, elapsed) == initial - (elapsed * FullTurn) \div duration

RotationAt(initial, elapsed) == initial + (elapsed * FullTurn) \div duration

\* meshes with the current Mesh's rotation.y set to y (nothing without a Mesh).
WithRotation(y) ==
    IF meshRef # 0 THEN [meshes EXCEPT ![meshRef].rotationY = y] ELSE meshes

\* recorderRef.current exists and its getState() includes 'recording'.
EncoderRecording(ss) == recorderRef # 0 /\ ss[recorderRef].encoder = "recording"

\* One call of startRecording with its closure.  sinceStart is Date.now() -
\* startTime, the only use the code makes of the clock; finalized and downloads
\* count the runs of the finalize callback and its a.click().
NewSession(enc) ==
    [encoder |-> enc,
     sinceStart |-> 0,
     initialRotationY |-> IF meshRef # 0 THEN meshes[meshRef].rotationY ELSE 0,
     rafPending |-> (enc = "recording"),
     callbackPending |-> FALSE,
     finalized |-> 0,
     downloads |-> 0]

\* startRecording.  outcome is what the platform does with the request:
\* "throws" (canvas.captureStream is not available), "inactive" (the encoder
\* does not enter the recording state) or "recording".  The first call of
\* animateRecording is part of it.
startRecording(outcome) ==
    /\ ExportButtonEnabled
    /\ rendererRef # 0 /\ sceneRef # 0 /\ cameraRef # 0
    /\ Len(sessions) < MaxSessions
    /\ exportBusy' = TRUE
    /\ isRecording' = TRUE
    /\ IF outcome = "throws"
       THEN /\ sessions' = Append(sessions, NewSession("none"))
            /\ UNCHANGED <<recorderRef, meshes>>
       ELSE /\ sessions' = Append(sessions, NewSession(outcome))
            /\ recorderRef' = Len(sessions) + 1
            /\ meshes' = IF outcome = "recording"
                         THEN WithRotation(RotationAt(NewSession(outcome).initialRotationY, 0))
                         ELSE meshes
    /\ UNCHANGED <<mounted, propsVars, contextVars, sceneChildren, meshRef, loads,
                   isLoadingAssets, viewVars>>

\* stopRecordingAndDownload taking its no-encoder branch although an encoder
\* exists: the busy state is cleared and the finalize callback never runs.
stopRecordingAndDownload_Skip(s) ==
    /\ sessions' = [sessions EXCEPT ![s].rafPending = FALSE]
    /\ isRecording' = IF mounted THEN FALSE ELSE isRecording
    /\ exportBusy' = FALSE

\* stopRecordingAndDownload, called by session s's animateRecording: it asks
\* the encoder to stop and hands it the finalize callback.
stopRecordingAndDownload(s) ==
    IF recorderRef # 0
    THEN /\ sessions' = [[sessions EXCEPT ![s].rafPending = FALSE]
                            EXCEPT ![recorderRef].encoder = "stopped",
                                   ![recorderRef].callbackPending = TRUE]
         /\ UNCHANGED <<isRecording, exportBusy>>
    ELSE /\ sessions' = [sessions EXCEPT ![s].rafPending = FALSE]
         /\ isRecording' = IF mounted THEN FALSE ELSE isRecording
         /\ exportBusy' = FALSE

\* The frame callback stopping once half the duration has passed.
animateRecording_StopsEarly(s) ==
    /\ s \in 1..Len(sessions)
    /\ sessions[s].rafPending
    /\ IF ~EncoderRecording(sessions)
       THEN /\ sessions' = [sessions EXCEPT ![s].rafPending = FALSE]
            /\ UNCHANGED <<meshes, isRecording, exportBusy>>
       ELSE LET elapsedTime == sessions[s].sinceStart IN
            IF elapsedTime * 2 < duration
            THEN /\ meshes' = WithRotation(RotationAt(sessions[s].initialRotationY, elapsedTime))
                 /\ UNCHANGED <<sessions, isRecording, exportBusy>>
            ELSE /\ stopRecordingAndDownload(s)
                 /\ meshes' = WithRotation(sessions[s].initialRotationY)
    /\ UNCHANGED <<mounted, propsVars, contextVars, sceneChildren, meshRef, loads,
                   isLoadingAssets, recorderRef, viewVars>>

\* One frame callback of session s's recording loop.
animateRecording(s) ==
    /\ s \in 1..Len(sessions)
    /\ sessions[s].rafPending
    /\ IF ~EncoderRecording(sessions)
       THEN /\ sessions' = [sessions EXCEPT ![s].rafPending = FALSE]
            /\ UNCHANGED <<meshes, isRecording, exportBusy>>
       ELSE LET elapsedTime == sessions[s].sinceStart IN
            IF elapsedTime < duration
            THEN /\ meshes' = WithRotation(RotationAt(sessions[s].initialRotationY, elapsedTime))
                 /\ UNCHANGED <<sessions, isRecording, exportBusy>>
            ELSE /\ stopRecordingAndDownload(s)
                 /\ meshes' = WithRotation(sessions[s].initialRotationY)
    /\ UNCHANGED <<mounted, propsVars, contextVars, sceneChildren, meshRef, loads,
                   isLoadingAssets, recorderRef, viewVars>>

\* The callback handed to stopRecording: blob, download, release, signal.
stopCallback(s) ==
    /\ s \in 1..Len(sessions)
    /\ sessions[s].callbackPending
    /\ IF recorderRef = 0
       THEN \* recorderRef.current!.getBlob() throws on null
            /\ sessions' = [sessions EXCEPT ![s].callbackPending = FALSE]
            /\ UNCHANGED <<recorderRef, isRecording, exportBusy>>
       ELSE /\ sessions' = [sessions EXCEPT ![s].callbackPending = FALSE,
                                            ![s].finalized = @ + 1,
                                            ![s].downloads = @ + 1]
            /\ recorderRef' = 0
            /\ isRecording' = IF mounted THEN FALSE ELSE isRecording
            /\ exportBusy' = FALSE
    /\ UNCHANGED <<mounted, propsVars, contextVars, meshVars, loads, isLoadingAssets,
                   viewVars>>

\* Date.now() moves on by ClockStep.  Only animateRecording reads the clock, and
\* only as Date.now() - startTime: time passes for the sessions whose next tick
\* is scheduled and can still tell the difference.
Ticking(s) == sessions[s].rafPending /\ sessions[s].sinceStart < duration

AdvanceClock ==
    /\ \E s \in 1..Len(sessions) : Ticking(s)
    /\ sessions' = [s \in 1..Len(sessions) |->
                       IF Ticking(s)
                       THEN [sessions[s] EXCEPT !.sinceStart = @ + ClockStep]
                       ELSE sessions[s]]
    /\ UNCHANGED <<mounted, propsVars, contextVars, meshVars, loads, isLoadingAssets,
                   isRecording, recorderRef, exportBusy, viewVars>>

\* ------------------------------------------------------------ view controls
\* The largest length the square root is searched up to.
MaxLength == 30000

RECURSIVE SqrtBetween(_, _, _)
SqrtBetween(n, lo, hi) ==
    IF lo >= hi THEN lo
    ELSE LET mid == (lo + hi + 1) \div 2 IN
         IF mid * mid <= n THEN SqrtBetween(n, mid, hi) ELSE SqrtBetween(n, lo, mid - 1)

\* Vector3.length(), rounded down.
Length(p) == SqrtBetween(p[1] * p[1] + p[2] * p[2] + p[3] * p[3], 0, MaxLength)

Presets == {"front", "top", "sideR", "sideL", "reset"}

\* distance > 0.1 ? distance : 1.5
PresetDistance(distance) ==
    IF distance > MinPresetDistance THEN distance ELSE InitialCameraZ

\* The switch with the two side views exchanged.
PresetPosition_SidesSwapped(preset, d) ==
    CASE preset \in {"front", "reset"} -> <<0, 0, d>>
      [] preset = "top" -> <<0, d, TopOffset>>
      [] preset = "sideR" -> <<0 - d, 0, 0>>
      [] preset = "sideL" -> <<d, 0, 0>>

\* The switch of setPresetView: camera.position.set(...) for each preset.
PresetPosition(preset, d) ==
    CASE preset \in {"front", "reset"} -> <<0, 0, d>>
      [] preset = "top" -> <<0, d, TopOffset>>
      [] preset = "sideR" -> <<d, 0, 0>>
      [] preset = "sideL" -> <<0 - d, 0, 0>>

\* setPresetView: the distance is read, the controls are reset (target back
\* to the origin), the camera is placed for the preset and looks at the origin.
setPresetView(preset) ==
    /\ ExportButtonEnabled
    /\ cameraRef # 0 /\ controlsRef # 0
    /\ cameraPosition' = PresetPosition(preset, PresetDistance(Length(cameraPosition)))
    /\ controlsTarget' = Origin
    /\ UNCHANGED <<mounted, propsVars, contextVars, meshVars, loads, isLoadingAssets,
                   recordVars, releaseVars, resizeListener, surfaceVars, pngDownloads,
                   gestures, outerVars>>

\* controls.maxDistance of the OrbitControls as constructed: never set, and so
\* Infinity, a length above every length of the model.
Infinity == MaxLength + 1
maxDistance == Infinity

Min(x, y) == IF x <= y THEN x ELSE y

\* Division rounding towards zero, as a float truncated to thousandths.
TruncDiv(x, y) == IF x >= 0 THEN x \div y ELSE 0 - ((0 - x) \div y)

\* The vector v stretched or shrunk to length r.
Rescaled(v, r) ==
    IF Length(v) = 0 THEN v ELSE [i \in 1..3 |-> TruncDiv(v[i] * r, Length(v))]

\* Both toolbar zoom buttons divide the orbit radius by 1.2.
Dollied_SameFactor(p, target, factor) ==
    LET offset == [i \in 1..3 |-> p[i] - target[i]]
        scaled == [i \in 1..3 |-> TruncDiv(offset[i] * 1000, ZoomInFactor)]
    IN  [i \in 1..3 |-> target[i] + scaled[i]]

\* controls.dollyOut(factor); controls.update(): the camera's offset from the
\* target is divided by factor (factor > 1 zooms in, < 1 zooms out) and its
\* length kept between minDistance and maxDistance.
Dollied(p, target, factor) ==
    LET offset == [i \in 1..3 |-> p[i] - target[i]]
        scaled == [i \in 1..3 |-> TruncDiv(offset[i] * 1000, factor)]
        radius == Max(minDistance, Min(maxDistance, Length(scaled)))
        moved == IF radius = Length(scaled) THEN scaled ELSE Rescaled(scaled, radius)
    IN  [i \in 1..3 |-> target[i] + moved[i]]

\* The distance from the camera to the controls' target.
OrbitDistance ==
    Length([i \in 1..3 |-> cameraPosition[i] - controlsTarget[i]])

ZoomFactors == {ZoomInFactor, ZoomOutFactor}

\* handleZoom(factor), from the zoom-in and the zoom-out button.
handleZoom(factor) ==
    /\ ExportButtonEnabled
    /\ cameraRef # 0 /\ controlsRef # 0
    /\ factor = ZoomInFactor => gestures[1] < MaxZoomIns
    /\ factor = ZoomOutFactor => gestures[2] < MaxZoomOuts
    /\ gestures' = IF factor = ZoomInFactor
                   THEN <<gestures[1] + 1, gestures[2], gestures[3]>>
                   ELSE <<gestures[1], gestures[2] + 1, gestures[3]>>
    /\ cameraPosition' = Dollied(cameraPosition, controlsTarget, factor)
    /\ UNCHANGED <<mounted, propsVars, contextVars, meshVars, loads, isLoadingAssets,
                   recordVars, releaseVars, resizeListener, surfaceVars, controlsTarget,
                   pngDownloads, outerVars>>

\* The pointer gestures of the OrbitControls, all enabled as constructed: a drag
\* that orbits the camera a quarter turn about the vertical axis through the
\* target. The distance to the target is the same afterwards.
orbitRotate ==
    /\ cameraRef # 0 /\ controlsRef # 0
    /\ LET offset == [i \in 1..3 |-> cameraPosition[i] - controlsTarget[i]]
           turned == <<offset[3], offset[2], 0 - offset[1]>>
       IN  cameraPosition' = [i \in 1..3 |-> controlsTarget[i] + turned[i]]
    /\ UNCHANGED <<mounted, propsVars, contextVars, meshVars, loads, isLoadingAssets,
                   recordVars, releaseVars, resizeListener, surfaceVars, controlsTarget,
                   pngDownloads, gestures, outerVars>>

PanSteps == {<<PanStep, 0, 0>>, <<0, PanStep, 0>>}

\* A drag that pans: the camera and the target move by the same step.
orbitPan(step) ==
    /\ cameraRef # 0 /\ controlsRef # 0
    /\ gestures[3] < MaxPans
    /\ gestures' = <<gestures[1], gestures[2], gestures[3] + 1>>
    /\ cameraPosition' = [i \in 1..3 |-> cameraPosition[i] + step[i]]
    /\ controlsTarget' = [i \in 1..3 |-> controlsTarget[i] + step[i]]
    /\ UNCHANGED <<mounted, propsVars, contextVars, meshVars, loads, isLoadingAssets,
                   recordVars, releaseVars, resizeListener, surfaceVars, pngDownloads,
                   outerVars>>

\* exportAsImage: the canvas is downloaded as depthvision_render.png.
exportAsImage ==
    /\ ExportButtonEnabled
    /\ rendererRef # 0
    /\ pngDownloads < MaxStills
    /\ pngDownloads' = pngDownloads + 1
    /\ UNCHANGED <<mounted, propsVars, contextVars, meshVars, loads, isLoadingAssets,
                   recordVars, releaseVars, resizeListener, surfaceVars, cameraVars,
                   gestures, outerVars>>

\* ------------------------------------------------------------------ resize
\* The sizes the mount element can take.
Viewports == {<<w, h>> : w \in 1..NumViewports, h \in 1..NumViewports}

\* handleResize, run when the mount element has its new size.
handleResize ==
    IF rendererRef = 0 \/ cameraRef = 0
    THEN UNCHANGED <<rendererSize, cameraAspect>>
    ELSE /\ rendererSize' = viewport'
         /\ cameraAspect' = viewport'

\* The window is resized to v: the listeners registered on it run.
Resize(v) ==
    /\ mounted
    /\ v # viewport
    /\ viewport' = v
    /\ IF resizeListener THEN handleResize ELSE UNCHANGED <<rendererSize, cameraAspect>>
    /\ UNCHANGED <<mounted, propsVars, contextVars, meshVars, loads, isLoadingAssets,
                   recordVars, releaseVars, resizeListener, cameraVars, pngDownloads,
                   gestures, outerVars>>

\* -------------------------------------------------------------- unmount
\* The effect's cleanup function: it removes the resize listener, nothing else.
Unmount ==
    /\ mounted
    /\ mounted' = FALSE
    /\ resizeListener' = FALSE
    /\ UNCHANGED <<propsVars, contextVars, meshVars, loads, isLoadingAssets,
                   recordVars, releaseVars, surfaceVars, cameraVars, pngDownloads,
                   gestures, outerVars>>

\* --------------------------------------------------------- the hosting page
\* The page exists in two sources: src/app/page.tsx and the later part_000.
HostVersions == {"page.tsx", "part_000"}

\* Media (data URIs) the page can hold: 0 is null, 1..NumImages are images,
\* then one video and one file that is neither.
Images == 1..NumImages
Video == NumImages + 1
OtherMedium == NumImages + 2

\* originalImage.startsWith('data:video')
IsVideo(m) == m = Video

\* The files the user can pick or drop: what reading them gives, their type
\* and their size ("small" up to 5 MB, "medium" up to 10 MB, "large" above).
Files ==
    { [medium |-> m, type |-> "image", size |-> "small"] : m \in Images }
    \cup
    { [medium |-> 1, type |-> "image", size |-> "medium"],
      [medium |-> 1, type |-> "image", size |-> "large"],
      [medium |-> Video, type |-> "video", size |-> "small"],
      [medium |-> OtherMedium, type |-> "other", size |-> "small"] }

\* The checks before the FileReader is started: the size limit of 5 MB in
\* page.tsx; the accepted types and the size limit of 10 MB in part_000.
FileAccepted(file) ==
    IF hostVersion = "page.tsx"
    THEN file.size = "small"
    ELSE file.type \in {"image", "video"} /\ file.size \in {"small", "medium"}

\* processFile (part_000) and the body of handleFileChange (page.tsx).
processFile(file) ==
    readers' = IF FileAccepted(file) THEN readers \cup {file.medium} ELSE readers

\* handleFileChange: the file input is disabled while isLoading.
handleFileChange(file) ==
    /\ ~isLoading
    /\ processFile(file)
    /\ UNCHANGED <<viewerVars, hostVersion, originalImage, depthMapImage, isLoading,
                   isExporting, imageUrl, progress, error, isDragging, urlLoad,
                   generation, progressIntervals, proxyCall>>

\* handleDragOver (part_000).
handleDragOver ==
    /\ hostVersion = "part_000"
    /\ isDragging' = IF ~isLoading THEN TRUE ELSE isDragging
    /\ UNCHANGED <<viewerVars, hostVersion, originalImage, depthMapImage, isLoading,
                   isExporting, imageUrl, progress, error, readers, urlLoad,
                   generation, progressIntervals, proxyCall>>

\* handleDragLeave (part_000).
handleDragLeave ==
    /\ hostVersion = "part_000"
    /\ isDragging' = FALSE
    /\ UNCHANGED <<viewerVars, hostVersion, originalImage, depthMapImage, isLoading,
                   isExporting, imageUrl, progress, error, readers, urlLoad,
                   generation, progressIntervals, proxyCall>>

\* handleDrop (part_000).
handleDrop(file) ==
    /\ hostVersion = "part_000"
    /\ isDragging' = FALSE
    /\ IF isLoading THEN UNCHANGED readers ELSE processFile(file)
    /\ UNCHANGED <<viewerVars, hostVersion, originalImage, depthMapImage, isLoading,
                   isExporting, imageUrl, progress, error, urlLoad, generation,
                   progressIntervals, proxyCall>>

\* reader.onload.
ReaderLoaded(m) ==
    /\ m \in readers
    /\ readers' = readers \ {m}
    /\ originalImage' = m
    /\ depthMapImage' = 0
    /\ error' = ""
    /\ UNCHANGED <<viewerVars, hostVersion, isLoading, isExporting, imageUrl, progress,
                   isDragging, urlLoad, generation, progressIntervals, proxyCall>>

\* onChange of the URL field, disabled while isLoading.
setImageUrl(url) ==
    /\ ~isLoading
    /\ url # imageUrl
    /\ imageUrl' = url
    /\ UNCHANGED <<viewerVars, hostVersion, originalImage, depthMapImage, isLoading,
                   isExporting, progress, error, isDragging, readers, urlLoad,
                   generation, progressIntervals, proxyCall>>

\* imageUrl.trim() is empty.
Blank(url) == \A i \in 1..Len(url) : url[i] = " "

EndsWith(str, suffix) ==
    Len(str) >= Len(suffix)
    /\ SubSeq(str, Len(str) - Len(suffix) + 1, Len(str)) = suffix

\* imageUrl.match(/\.(jpeg|jpg|gif|png|webp)$/i), for URLs in lower case.
ImageExtensions ==
    { <<".", "j", "p", "e", "g">>, <<".", "j", "p", "g">>, <<".", "g", "i", "f">>,
      <<".", "p", "n", "g">>, <<".", "w", "e", "b", "p">> }

HasImageExtension(url) == \E ext \in ImageExtensions : EndsWith(url, ext)

\* The early returns of handleImageUrlLoad.
UrlLoadRefused ==
    IF hostVersion = "page.tsx"
    THEN imageUrl = <<>>
    ELSE imageUrl = <<>> \/ Blank(imageUrl) \/ ~HasImageExtension(imageUrl)

\* handleImageUrlLoad up to its await.  byKey is the Enter key in the URL
\* field (part_000), otherwise the Load button, which is disabled for a blank
\* URL; both are disabled while isLoading.
handleImageUrlLoad(byKey) ==
    /\ ~isLoading
    /\ IF byKey THEN hostVersion = "part_000" ELSE ~Blank(imageUrl)
    /\ urlLoad = <<>>
    /\ IF UrlLoadRefused
       THEN UNCHANGED <<isLoading, progress, error, urlLoad>>
       ELSE /\ isLoading' = TRUE
            /\ progress' = 30
            /\ error' = ""
            /\ urlLoad' = <<imageUrl>>
    /\ UNCHANGED <<viewerVars, hostVersion, originalImage, depthMapImage, isExporting,
                   imageUrl, isDragging, readers, generation, progressIntervals,
                   proxyCall>>

\* What awaiting fetchImageAsDataUrl(imageUrl) can give: what the server
\* action settles with for some outcome of the network, or a rejection when
\* the call of the server action itself fails.
UrlLoadResults ==
    IF urlLoad = <<>> THEN {}
    ELSE {fetchImageAsDataUrl(urlLoad[1], outcome) : outcome \in FetchOutcomes}
         \cup {[settled |-> "rejected", value |-> Failure("")]}

\* The rest of handleImageUrlLoad, after the await.  image is what the URL
\* holds.
UrlLoadSettled(result, image) ==
    /\ urlLoad # <<>>
    /\ IF result.settled = "resolved"
       THEN IF result.value.success
            THEN /\ originalImage' = image
                 /\ depthMapImage' = 0
                 /\ UNCHANGED error
            ELSE /\ error' = result.value.error
                 /\ UNCHANGED <<originalImage, depthMapImage>>
       ELSE /\ error' = "Failed to load image from URL."
            /\ UNCHANGED <<originalImage, depthMapImage>>
    /\ isLoading' = FALSE
    /\ progress' = 0
    /\ urlLoad' = <<>>
    /\ UNCHANGED <<viewerVars, hostVersion, isExporting, imageUrl, isDragging, readers,
                   generation, progressIntervals, proxyCall>>

\* The disabled attribute of the Generate (and Regenerate) button.
GenerateButtonEnabled ==
    /\ originalImage # 0
    /\ ~isLoading
    /\ ~isExporting
    /\ hostVersion = "part_000" => ~IsVideo(originalImage)

\* handleGenerateDepthMap up to its await: the progress timer is started and
\* generateDepthMap is called with the image shown.
handleGenerateDepthMap ==
    /\ GenerateButtonEnabled
    /\ generation = <<>>
    /\ progressIntervals < MaxIntervals
    /\ isLoading' = TRUE
    /\ progress' = 10
    /\ error' = ""
    /\ depthMapImage' = 0
    /\ progressIntervals' = progressIntervals + 1
    /\ generation' = <<originalImage>>
    /\ UNCHANGED <<viewerVars, hostVersion, originalImage, isExporting, imageUrl,
                   isDragging, readers, urlLoad, proxyCall>>

\* The callback of the progress timer: setProgress(p => (p < 90 ? p + 10 : p)).
ProgressTick ==
    /\ progressIntervals > 0
    /\ progress < 90
    /\ progress' = progress + 10
    /\ UNCHANGED <<viewerVars, hostVersion, originalImage, depthMapImage, isLoading,
                   isExporting, imageUrl, error, isDragging, readers, urlLoad,
                   generation, progressIntervals, proxyCall>>

GenerationOutcomes == {"depthMap", "empty", "rejects"}

\* Whether the timer is cleared on the way out.  After the await the try
\* block clears it.  When generateDepthMap rejects only the catch block can:
\* in part_000 it does; in page.tsx progressInterval is a const of the try
\* block, the catch block's clearInterval(progressInterval) throws a
\* ReferenceError and the timer stays.
TimerCleared(outcome) ==
    outcome \in {"depthMap", "empty"} \/ hostVersion = "part_000"

\* The rest of handleGenerateDepthMap: generateDepthMap has settled with a
\* depth map, without one, or by rejecting.  finally runs on every path.
GenerationSettled(outcome) ==
    /\ generation # <<>>
    /\ progressIntervals' = IF TimerCleared(outcome)
                            THEN progressIntervals - 1
                            ELSE progressIntervals
    /\ IF outcome = "depthMap"
       THEN /\ depthMapImage' = generation[1]
            /\ UNCHANGED error
       ELSE /\ error' = IF outcome = "empty"
                        THEN "AI did not return a depth map."
                        ELSE "Failed to generate depth map."
            /\ UNCHANGED depthMapImage
    /\ isLoading' = FALSE
    /\ progress' = 0
    /\ generation' = <<>>
    /\ UNCHANGED <<viewerVars, hostVersion, originalImage, isExporting, imageUrl,
                   isDragging, readers, urlLoad, proxyCall>>

\* handleClear: the button is disabled while isLoading or isExporting.
handleClear ==
    /\ ~isLoading /\ ~isExporting
    /\ originalImage' = 0
    /\ depthMapImage' = 0
    /\ imageUrl' = <<>>
    /\ error' = ""
    /\ isLoading' = FALSE
    /\ progress' = 0
    /\ UNCHANGED <<viewerVars, hostVersion, isExporting, isDragging, readers, urlLoad,
                   generation, progressIntervals, proxyCall>>

\* handleExportLoadingChange(loading), called by the viewer: with true when a
\* video export starts (its button needs both inputs), with false when it ends.
handleExportLoadingChange(loading) ==
    /\ IF loading
       THEN originalImage # 0 /\ depthMapImage # 0 /\ ~isExporting
       ELSE isExporting
    /\ isExporting' = loading
    /\ UNCHANGED <<viewerVars, hostVersion, originalImage, depthMapImage, isLoading,
                   imageUrl, progress, error, isDragging, readers, urlLoad,
                   generation, progressIntervals, proxyCall>>

\* The page as first rendered.
PageInit(version) ==
    /\ hostVersion = version
    /\ originalImage = 0
    /\ depthMapImage = 0
    /\ isLoading = FALSE
    /\ isExporting = FALSE
    /\ imageUrl = <<>>
    /\ progress = 0
    /\ error = ""
    /\ isDragging = FALSE
    /\ readers = {}
    /\ urlLoad = <<>>
    /\ generation = <<>>
    /\ progressIntervals = 0

\* ------------------------------------------------------------ the machine
ViewerInit ==
    /\ mounted = TRUE
    /\ originalImageUri = 0
    /\ depthMapUri = 0
    /\ rendererRef = 0
    /\ sceneRef = 0
    /\ cameraRef = 0
    /\ controlsRef = 0
    /\ sceneLights = {}
    /\ meshes = <<>>
    /\ sceneChildren = {}
    /\ meshRef = 0
    /\ loads = <<>>
    /\ isLoadingAssets = FALSE
    /\ isRecording = FALSE
    /\ recorderRef = 0
    /\ sessions = <<>>
    /\ exportBusy = FALSE
    /\ rendererDisposed = FALSE
    /\ controlsDisposed = FALSE
    /\ resizeListener = FALSE
    /\ viewport = <<1, 1>>
    /\ rendererSize = <<0, 0>>
    /\ cameraAspect = <<0, 0>>
    /\ cameraPosition = Origin
    /\ controlsTarget = Origin
    /\ pngDownloads = 0
    /\ gestures = <<0, 0, 0>>
    /\ animateChains = 0

Init == ViewerInit /\ PageInit("page.tsx") /\ proxyCall = ProxyIdle

TextureKinds == {"originalTexture", "depthTexture"}
Outcomes == {"recording", "inactive", "throws"}

Next ==
    \/ \E o \in 0..NumUris, d \in 0..NumUris : EffectValidPair(o, d)
    \/ \E o \in 0..NumUris, d \in 0..NumUris : EffectNullInput(o, d)
    \/ \E i \in 1..Len(loads), w \in TextureKinds : TextureLoaded(i, w)
    \/ \E i \in 1..Len(loads), w \in TextureKinds : TextureFailed(i, w)
    \/ \E outcome \in Outcomes : startRecording(outcome)
    \/ \E s \in 1..Len(sessions) : animateRecording(s)
    \/ \E s \in 1..Len(sessions) : stopCallback(s)
    \/ AdvanceClock
    \/ Unmount

Spec == Init /\ [][Next]_vars

\* Frame callbacks keep firing, the encoder calls back once stopped, and the
\* clock moves on.
RecordingTick == \E s \in 1..Len(sessions) : animateRecording(s)
EncoderCallback == \E s \in 1..Len(sessions) : stopCallback(s)

LiveSpec ==
    Spec /\ WF_vars(RecordingTick) /\ WF_vars(EncoderCallback) /\ WF_vars(AdvanceClock)

\* The viewer when every texture load has settled before the inputs change again.
NoLoadInFlight == \A i \in 1..Len(loads) : loads[i].promise # "pending"

SeqEffectValidPair(o, d) ==
    /\ NoLoadInFlight
    /\ Len(loads) < MaxSeqLoads
    /\ RunEffectValidPair(o, d)

SeqEffectNullInput(o, d) ==
    /\ NoLoadInFlight
    /\ EffectNullInput(o, d)

SeqNext ==
    \/ \E o \in 0..NumUris, d \in 0..NumUris : SeqEffectValidPair(o, d)
    \/ \E o \in 0..NumUris, d \in 0..NumUris : SeqEffectNullInput(o, d)
    \/ \E i \in 1..Len(loads), w \in TextureKinds : TextureLoaded(i, w)
    \/ \E i \in 1..Len(loads), w \in TextureKinds : TextureFailed(i, w)
    \/ \E outcome \in Outcomes : startRecording(outcome)
    \/ \E s \in 1..Len(sessions) : animateRecording(s)
    \/ \E s \in 1..Len(sessions) : stopCallback(s)
    \/ AdvanceClock
    \/ Unmount

SeqSpec == Init /\ [][SeqNext]_vars

\* The viewer with its view controls, the screenshot and the window resize,
\* no video export being started.
ViewEffectValidPair(o, d) ==
    /\ Len(loads) < MaxViewLoads
    /\ RunEffectValidPair(o, d)

ViewNext ==
    \/ \E o \in 0..NumUris, d \in 0..NumUris : ViewEffectValidPair(o, d)
    \/ \E o \in 0..NumUris, d \in 0..NumUris : EffectNullInput(o, d)
    \/ \E i \in 1..Len(loads), w \in TextureKinds, a \in ImageAspects :
          TextureLoadedAs(i, w, a)
    \/ \E i \in 1..Len(loads), w \in TextureKinds : TextureFailed(i, w)
    \/ \E preset \in Presets : setPresetView(preset)
    \/ exportAsImage
    \/ \E v \in Viewports : Resize(v)
    \/ Unmount

ViewSpec == Init /\ [][ViewNext]_vars

\* The viewer building meshes for colour images of many sizes: landscape,
\* portrait, square, two of one aspect ratio, one whose 255 / aspect lies
\* half way between two integers, and a very wide one.
ImageSizes ==
    {<<1920, 1080>>, <<1280, 720>>, <<1080, 1920>>, <<1000, 1000>>, <<2, 1>>,
     <<3000, 5>>}

GeometryEffectValidPair(o, d) ==
    /\ Len(loads) < MaxGeometryLoads
    /\ RunEffectValidPair(o, d)

GeometryNext ==
    \/ \E o \in 0..NumUris, d \in 0..NumUris : GeometryEffectValidPair(o, d)
    \/ \E i \in 1..Len(loads), w \in TextureKinds, a \in ImageSizes :
          TextureLoadedAs(i, w, a)

GeometrySpec == Init /\ [][GeometryNext]_vars

\* The viewer with its presets and its zoom buttons.
CameraEffectValidPair ==
    /\ Len(loads) < MaxCameraLoads
    /\ RunEffectValidPair(1, 1)

CameraNext ==
    \/ CameraEffectValidPair
    \/ \E i \in 1..Len(loads), w \in TextureKinds, a \in ImageAspects :
          TextureLoadedAs(i, w, a)
    \/ \E preset \in Presets : setPresetView(preset)
    \/ \E factor \in ZoomFactors : handleZoom(factor)

CameraSpec == Init /\ [][CameraNext]_vars

\* ---------------------------------------------------------------------------
\* The viewer of one input pair whose canvas is dragged as well: presets, a few
\* zoom clicks, orbits and pans in any order.
OrbitZoom(factor) ==
    /\ gestures[1] + gestures[2] < MaxOrbitZooms
    /\ handleZoom(factor)

OrbitNext ==
    \/ CameraEffectValidPair
    \/ \E i \in 1..Len(loads), w \in TextureKinds, a \in ImageAspects :
          TextureLoadedAs(i, w, a)
    \/ \E preset \in Presets : setPresetView(preset)
    \/ \E factor \in ZoomFactors : OrbitZoom(factor)
    \/ orbitRotate
    \/ \E step \in PanSteps : orbitPan(step)

OrbitSpec == Init /\ [][OrbitNext]_vars

\* ---------------------------------------------------------------------------
\* The hosting page of either source, the viewer inside it reduced to its
\* export signal.
HostInit ==
    /\ ViewerInit
    /\ \E version \in HostVersions : PageInit(version)
    /\ proxyCall = ProxyIdle

HostNext ==
    \/ \E file \in Files : handleFileChange(file)
    \/ handleDragOver
    \/ handleDragLeave
    \/ \E file \in Files : handleDrop(file)
    \/ \E m \in readers : ReaderLoaded(m)
    \/ \E url \in Urls : setImageUrl(url)
    \/ \E byKey \in BOOLEAN : handleImageUrlLoad(byKey)
    \/ \E result \in UrlLoadResults, image \in Images : UrlLoadSettled(result, image)
    \/ handleGenerateDepthMap
    \/ ProgressTick
    \/ \E outcome \in GenerationOutcomes : GenerationSettled(outcome)
    \/ handleClear
    \/ \E loading \in BOOLEAN : handleExportLoadingChange(loading)

HostSpec == HostInit /\ [][HostNext]_vars

\* ---------------------------------------------------------------------------
\* One call of the server action, for every URL and everything the network
\* can do.
ProxyNext ==
    \/ \E url \in Urls, outcome \in FetchOutcomes : ProxyCalled(url, outcome)
    \/ ProxySettled

ProxySpec == Init /\ [][ProxyNext]_vars


\* ================================================================ claims
\* What the claims speak of.
FullyDisposed(m) ==
    /\ m.geometryDisposed
    /\ m.materialDisposed
    /\ (m.map # 0 => m.mapDisposed)
    /\ (m.displacementMap # 0 => m.displacementMapDisposed)

MeshIds == 1..Len(meshes)
LiveGeometries == Cardinality({m \in MeshIds : ~meshes[m].geometryDisposed})
LiveMaterials == Cardinality({m \in MeshIds : ~meshes[m].materialDisposed})
LiveTextures ==
    Cardinality({m \in MeshIds : meshes[m].map # 0 /\ ~meshes[m].mapDisposed})
    + Cardinality({m \in MeshIds : meshes[m].displacementMap # 0
                                   /\ ~meshes[m].displacementMapDisposed})
MeshesOfLoad(i) == {m \in MeshIds : meshes[m].load = i}

\* A session whose next tick is scheduled or whose finalize callback is due.
SessionLive(s) == sessions[s].rafPending \/ sessions[s].callbackPending
\* The sessions holding an encoder that has not been released.
LiveEncoders ==
    {s \in 1..Len(sessions) :
        sessions[s].encoder \in {"inactive", "recording", "stopped"}
        /\ sessions[s].finalized = 0}
\* The capture session's state as the host sees it.
ViewerPhase ==
    IF ~exportBusy THEN "idle"
    ELSE IF \E s \in 1..Len(sessions) : sessions[s].callbackPending THEN "finalizing"
    ELSE "capturing"

\* C1: in every reachable state the Scene holds at most one Mesh, and every
\* Mesh but the newest has had its geometry, material and two textures
\* disposed (the previous Mesh is disposed before a new one is attached).
C1_OneMeshDisposeFirst ==
    /\ Cardinality(sceneChildren) <= 1
    /\ \A m \in MeshIds : m < Len(meshes) => FullyDisposed(meshes[m])

\* C2: the finalize callback has run exactly once for every session that is
\* over (every earlier session, and the latest once the viewer is idle again)
\* and not yet for a session in progress, each run with one download; and the
\* capture state only moves idle -> capturing -> finalizing -> idle.
C2_Counts ==
    \A s \in 1..Len(sessions) :
        /\ sessions[s].finalized =
              IF s < Len(sessions) \/ ViewerPhase = "idle" THEN 1 ELSE 0
        /\ sessions[s].downloads = sessions[s].finalized
C2_PhaseOrder ==
    \/ ViewerPhase' = ViewerPhase
    \/ ViewerPhase = "idle" /\ ViewerPhase' = "capturing"
    \/ ViewerPhase = "capturing" /\ ViewerPhase' = "finalizing"
    \/ ViewerPhase = "finalizing" /\ ViewerPhase' = "idle"
C2_FinalizeExactlyOnce == [][C2_PhaseOrder /\ C2_Counts']_vars
\* Two exports have run to their end, each finalized once.
C2_Witness ==
    /\ Len(sessions) = 2
    /\ ViewerPhase = "idle"
    /\ \A s \in 1..2 : sessions[s].finalized = 1

\* C3: every export-started signal is eventually followed by export-finished,
\* and the busy flag is true for as long as a session is live.
C3_ExportFinishes ==
    /\ exportBusy ~> ~exportBusy
    /\ [](\A s \in 1..Len(sessions) : SessionLive(s) => exportBusy)

\* C4: when the inputs change or the viewer unmounts while a session is live,
\* the session is torn down in that step: no session is live after it (so none
\* can reach the finalize callback and its download) and nothing is downloaded.
C4_InputsChange ==
    \/ <<originalImageUri, depthMapUri>>' # <<originalImageUri, depthMapUri>>
    \/ mounted' # mounted
C4_TornDownOnChange ==
    [][(C4_InputsChange /\ \E s \in 1..Len(sessions) : SessionLive(s))
          => \A s \in 1..Len(sessions) :
                ~SessionLive(s)' /\ sessions[s].downloads' = sessions[s].downloads]_vars

\* C5: at most one encoder is live, it is the one recorderRef holds, and the
\* export button is disabled from export start until the finalize callback has
\* run, so startRecording cannot run then.
C5_OneSession ==
    /\ Cardinality(LiveEncoders) <= 1
    /\ LiveEncoders \subseteq {recorderRef}
    /\ (LiveEncoders # {} \/ exportBusy) => ~ExportButtonEnabled
\* A live session on a mounted viewer with content, with exports to spare:
\* only isRecording keeps startRecording from running.
C5_Witness ==
    /\ LiveEncoders # {}
    /\ mounted /\ hasContent
    /\ Len(sessions) < MaxSessions

\* C6: when every load settles before the inputs change again, the live
\* geometries, materials and textures never exceed those of a single Mesh
\* (1, 1, 2), and are exactly those once the load of the current pair has
\* succeeded, whatever the number of transitions before.
C6_NoResourceGrowth ==
    /\ LiveGeometries <= 1 /\ LiveMaterials <= 1 /\ LiveTextures <= 2
    /\ (hasContent /\ Len(loads) > 0 /\ loads[Len(loads)].promise = "fulfilled")
          => /\ LiveGeometries = 1 /\ LiveMaterials = 1 /\ LiveTextures = 2
             /\ Cardinality(sceneChildren) = 1
\* The third pair in a row has been built: two rebuilds lie behind.
C6_Witness ==
    /\ Len(loads) = 3
    /\ \A i \in 1..3 : loads[i].promise = "fulfilled"
    /\ Len(meshes) = 3
    /\ sceneChildren = {3}

\* C7: every Mesh carries the color and the depth texture of one and the same
\* load, both loaded; a load with a texture pending or failed has no Mesh.
C7_BothTexturesJoin ==
    /\ \A m \in MeshIds :
          /\ meshes[m].load \in 1..Len(loads)
          /\ meshes[m].map = meshes[m].load
          /\ meshes[m].displacementMap = meshes[m].load
          /\ loads[meshes[m].load].originalTexture = "loaded"
          /\ loads[meshes[m].load].depthTexture = "loaded"
    /\ \A i \in 1..Len(loads) :
          (loads[i].originalTexture # "loaded" \/ loads[i].depthTexture # "loaded")
             => MeshesOfLoad(i) = {}
\* One load lost a texture after the other had arrived and built nothing,
\* while another load built a Mesh.
C7_Witness ==
    /\ \E i \in 1..Len(loads) :
          /\ loads[i].promise = "rejected"
          /\ "loaded" \in {loads[i].originalTexture, loads[i].depthTexture}
          /\ MeshesOfLoad(i) = {}
    /\ \E j \in 1..Len(loads) : MeshesOfLoad(j) # {}

\* C8: when the load of the pair last supplied has failed, the Mesh that was
\* displayed when that pair was supplied is still attached and undisposed.
C8_FailureKeepsScene ==
    (hasContent /\ Len(loads) > 0 /\ loads[Len(loads)].promise = "rejected"
        /\ loads[Len(loads)].previousMesh # 0)
       => /\ loads[Len(loads)].previousMesh \in sceneChildren
          /\ ~meshes[loads[Len(loads)].previousMesh].geometryDisposed
          /\ ~meshes[loads[Len(loads)].previousMesh].materialDisposed
          /\ ~meshes[loads[Len(loads)].previousMesh].mapDisposed
          /\ ~meshes[loads[Len(loads)].previousMesh].displacementMapDisposed

\* C9: while the inputs are not a valid pair the Scene contains no Mesh.
C9_NoMeshWithoutPair == ~hasContent => sceneChildren = {}

\* C10: the step from a valid pair to a null input detaches the current Mesh,
\* disposes its geometry, material and textures, clears meshRef and leaves
\* renderer, scene, camera, controls and lights as they were; the step back to
\* a valid pair issues one load; and a build adds exactly one Mesh, attached
\* and current.
C10_NullStep ==
    (hasContent /\ ~hasContent')
       => /\ meshRef' = 0
          /\ meshRef # 0 =>
                /\ meshRef \notin sceneChildren'
                /\ FullyDisposed(meshes'[meshRef])
                /\ Len(meshes') = Len(meshes)
          /\ UNCHANGED contextVars
C10_SupplyStep ==
    (~hasContent /\ hasContent')
       => /\ Len(loads') = Len(loads) + 1
          /\ loads'[Len(loads')].promise = "pending"
          /\ Len(meshes') = Len(meshes)
C10_BuildStep ==
    (Len(meshes') # Len(meshes))
       => /\ Len(meshes') = Len(meshes) + 1
          /\ sceneChildren' = sceneChildren \cup {Len(meshes')}
          /\ meshRef' = Len(meshes')
          /\ ~FullyDisposed(meshes'[Len(meshes')])
          /\ UNCHANGED contextVars
C10_NullTeardownAndRebuild ==
    [][C10_NullStep /\ C10_SupplyStep /\ C10_BuildStep]_vars
\* The inputs are null and the Mesh of the pair last supplied has been
\* disposed and detached, the renderer and the lights still there.
C10_Witness ==
    /\ ~hasContent
    /\ rendererRef # 0 /\ sceneLights = {"ambient", "directional"}
    /\ \E m \in MeshIds :
          /\ meshes[m].load = Len(loads)
          /\ FullyDisposed(meshes[m])
          /\ m \notin sceneChildren
    /\ meshRef = 0

\* C11: the step that unmounts the viewer releases the renderer, disposes the
\* camera controller and disposes the current Mesh with its geometry,
\* material and textures.
C11_UnmountReleases ==
    [][(mounted /\ ~mounted')
          => /\ rendererRef # 0 => rendererDisposed'
             /\ controlsRef # 0 => controlsDisposed'
             /\ meshRef # 0 => FullyDisposed(meshes'[meshRef])]_vars

\* C12: once the viewer is unmounted no callback of it acts: the Scene, the
\* current Mesh, the camera, the renderer size, the encoder reference, the
\* busy flag and the downloads stay as they are.
C12_QuietAfterUnmount ==
    [][~mounted
          => /\ UNCHANGED <<meshVars, cameraVars, rendererSize, cameraAspect,
                            recorderRef, exportBusy, pngDownloads>>
             /\ \A s \in 1..Len(sessions) :
                   sessions'[s].downloads = sessions[s].downloads]_vars

\* C13: a capture session is started (encoder created, export-started
\* signalled) only in a state where a Mesh is current and attached to the
\* Scene.
C13_ExportNeedsMesh ==
    [][Len(sessions') > Len(sessions)
          => (meshRef # 0 /\ meshRef \in sceneChildren)]_vars

\* C14: the still export downloads an image only in a state where a Mesh is
\* current and attached to the Scene.
C14_StillNeedsMesh ==
    [][pngDownloads' > pngDownloads
          => (meshRef # 0 /\ meshRef \in sceneChildren)]_vars

\* C15: when the capture stream cannot be had or the encoder does not enter
\* the recording state, the busy flag returns to false and the session
\* downloads nothing.
C15_FailsClosed ==
    /\ (exportBusy /\ \E s \in 1..Len(sessions) :
                          sessions[s].encoder \in {"none", "inactive"})
          ~> (~exportBusy /\ ~isRecording)
    /\ [](\A s \in 1..Len(sessions) :
             sessions[s].encoder \in {"none", "inactive"} => sessions[s].downloads = 0)

\* C16: an export that has run to completion has downloaded exactly once,
\* and, until another export starts, what the Scene shows has the yaw the
\* Mesh had when the export started: every Mesh attached to the Scene has it.
C16_OneDownloadYawRestored ==
    \A s \in 1..Len(sessions) :
        sessions[s].finalized > 0
           => /\ sessions[s].finalized = 1
              /\ sessions[s].downloads = 1
              /\ s = Len(sessions)
                    => \A m \in sceneChildren :
                          meshes[m].rotationY = sessions[s].initialRotationY

\* C17: while the viewer is mounted the Scene, the camera, the renderer, both
\* lights and the camera controller exist, with or without a valid pair.
C17_ContextFromMount ==
    mounted => /\ sceneRef # 0 /\ cameraRef # 0 /\ rendererRef # 0
               /\ controlsRef # 0
               /\ sceneLights = {"ambient", "directional"}
\* The other half of C17: once created they are never created again.
C17_CreatedOnce == [][rendererRef # 0 => UNCHANGED contextVars]_vars

\* C18: whenever the renderer exists, a resize of the viewport sets the
\* renderer size and the camera aspect to the new size and leaves the Mesh
\* attached and undisposed.
C18_ResizeTracksViewport ==
    [][(mounted /\ rendererRef # 0 /\ viewport' # viewport)
          => /\ rendererSize' = viewport'
             /\ cameraAspect' = viewport'
             /\ UNCHANGED meshVars]_vars

\* C19: the step in which a load settles, by success or by failure, leaves
\* the loading indicator false, and the indicator turns true only in a step
\* that supplies a new valid pair.
C19_SettleStep ==
    (mounted /\ \E i \in 1..Len(loads) :
                    loads[i].promise = "pending" /\ loads'[i].promise # "pending")
       => ~isLoadingAssets'
C19_RaiseStep ==
    (~isLoadingAssets /\ isLoadingAssets')
       => (hasContent' /\ Len(loads') = Len(loads) + 1
           /\ <<originalImageUri, depthMapUri>>' # <<originalImageUri, depthMapUri>>)
C19_LoadingCleared == [][C19_SettleStep /\ C19_RaiseStep]_vars
\* One load has failed and another has succeeded, and the indicator is off.
C19_Witness ==
    /\ mounted /\ ~isLoadingAssets
    /\ \E i \in 1..Len(loads) : loads[i].promise = "rejected"
    /\ \E j \in 1..Len(loads) : loads[j].promise = "fulfilled"

\* C20: the step that builds a Mesh leaves the camera at the fitting distance
\* of the plane built (of one of the image sizes) from the origin, with the
\* controls' target at the origin.
C20_CameraFitsAfterBuild ==
    [][Len(meshes') > Len(meshes)
          => /\ \E a \in ImageAspects :
                   Length(cameraPosition') = FitDistance(planeWidth, PlaneHeight(a))
             /\ controlsTarget' = Origin]_vars

\* C21: every Mesh built for a colour image of width w and height h has a
\* geometry of width 2 and height 2 / (w / h), with 255 horizontal segments
\* and, for vertical segments, the integer nearest to 255 / (w / h); two
\* images of one aspect ratio give the same geometry.
Abs(x) == IF x >= 0 THEN x ELSE 0 - x
SameAspect(a, b) == a[1] * b[2] = a[2] * b[1]
C21_GeometryOfAspect ==
    /\ \A m \in MeshIds :
          LET g == meshes[m].geometry
              w == meshes[m].image[1]
              h == meshes[m].image[2]
          IN  /\ g.widthSegments = 255
              /\ 2 * Abs(g.heightSegments * w - 255 * h) <= w
              /\ g.width = 2000
              /\ g.height * w <= 2000 * h
              /\ 2000 * h < (g.height + 1) * w
    /\ \A m, n \in MeshIds :
          SameAspect(meshes[m].image, meshes[n].image)
             => meshes[m].geometry = meshes[n].geometry
\* Two Meshes have been built for images of different sizes and one aspect
\* ratio.
C21_Witness ==
    \E m, n \in MeshIds :
        /\ meshes[m].image # meshes[n].image
        /\ SameAspect(meshes[m].image, meshes[n].image)

\* C22 as stated: a Mesh built for a colour image of 1920 by 1080 has 144
\* vertical segments.
C22_Segments144 ==
    \A m \in MeshIds :
        meshes[m].image = <<1920, 1080>> => meshes[m].geometry.heightSegments = 144
\* C22 as amended: a Mesh built for a colour image of 1920 by 1080 has 143
\* vertical segments (255 / (1920 / 1080) = 143.4375).
C22_Segments143 ==
    \A m \in MeshIds :
        meshes[m].image = <<1920, 1080>> => meshes[m].geometry.heightSegments = 143
\* A Mesh has been built for a colour image of 1920 by 1080.
C22_Witness == \E m \in MeshIds : meshes[m].image = <<1920, 1080>>

\* The position the preset is said to give at distance d.
ClaimedPosition(preset, d) ==
    IF preset = "top" THEN <<0, d, TopOffset>>
    ELSE IF preset = "sideR" THEN <<d, 0, 0>>
    ELSE IF preset = "sideL" THEN <<0 - d, 0, 0>>
    ELSE <<0, 0, d>>

C24_PresetKeepsOrbitDistance ==
    [][\A preset \in Presets :
          setPresetView(preset) =>
              (controlsTarget' = Origin /\ OrbitDistance' = OrbitDistance)]_vars

\* C25 as stated: there are a positive least and a finite greatest orbit
\* distance, a zoom-in click brings the camera strictly nearer unless it ends at
\* the least distance, a zoom-out click strictly farther unless it ends at the
\* greatest, and the distance after a zoom click is between the two.
C25_ZoomClamped ==
    [][\A factor \in ZoomFactors :
          handleZoom(factor) =>
              /\ 0 < minDistance /\ maxDistance < Infinity
              /\ minDistance <= OrbitDistance' /\ OrbitDistance' <= maxDistance
              /\ factor = ZoomInFactor =>
                     (OrbitDistance' < OrbitDistance \/ OrbitDistance' = minDistance)
              /\ factor = ZoomOutFactor =>
                     (OrbitDistance' > OrbitDistance \/ OrbitDistance' = maxDistance)]_vars

\* The orbit distance a click with the factor would leave from the position p.
DistanceAfterZoom(p, target, factor) ==
    LET q == Dollied(p, target, factor)
    IN  Length([i \in 1..3 |-> q[i] - target[i]])

\* C26 as stated: after a zoom-in click the zoom-out click brings the orbit
\* distance back to what it was before the zoom-in, and after a zoom-out click
\* the zoom-in click brings it back to what it was before the zoom-out.
C26_ZoomInverse ==
    [][/\ handleZoom(ZoomInFactor) =>
              DistanceAfterZoom(cameraPosition', controlsTarget', ZoomOutFactor)
                  = OrbitDistance
       /\ handleZoom(ZoomOutFactor) =>
              DistanceAfterZoom(cameraPosition', controlsTarget', ZoomInFactor)
                  = OrbitDistance]_vars
\* C27 as stated: at most one render-loop callback chain is scheduled at any
\* time, however often the input pair has changed.
C27_OneRenderLoop == animateChains <= 1

\* C28 as stated: with a valid pair as inputs, every issued load settled and
\* the load of the most recently supplied pair fulfilled, the current Mesh is
\* the one built by that load.
C28_MeshOfLatestPair ==
    (/\ hasContent
     /\ Len(loads) > 0
     /\ NoLoadInFlight
     /\ loads[Len(loads)].promise = "fulfilled")
        => (meshRef # 0 /\ meshes[meshRef].load = Len(loads))

\* C29: a tick of the recording loop that finds the encoder recording before
\* the duration has elapsed changes nothing but the yaw and leaves its next
\* tick scheduled; a step that stops a session's encoder, and a step that runs
\* its finalize callback, happen only when the session's elapsed time is at
\* least the duration.
C29_StopOnlyAfterDuration ==
    [][\A s \in 1..Len(sessions) :
          /\ (/\ animateRecording(s)
              /\ EncoderRecording(sessions)
              /\ sessions[s].sinceStart < duration)
                 => /\ sessions' = sessions
                    /\ sessions'[s].rafPending
                    /\ UNCHANGED <<recorderRef, isRecording, exportBusy>>
          /\ (sessions[s].encoder # "stopped" /\ sessions'[s].encoder = "stopped")
                 => sessions[s].sinceStart >= duration
          /\ sessions'[s].finalized > sessions[s].finalized
                 => sessions[s].sinceStart >= duration]_vars

\* A session has been finalized, its clock at or past the duration.
C29_Witness ==
    \E s \in 1..Len(sessions) :
        sessions[s].finalized > 0 /\ sessions[s].sinceStart >= duration

\* C30: the yaw y that a tick of a capturing session sets on the current Mesh
\* is initial + (elapsed / duration) of a full turn (in whole degrees, rounded
\* down); it is not below the yaw the Mesh had before the tick and lies from
\* initial up to, but not at, initial plus a full turn.
C30_YawOfTick ==
    [][\A s \in 1..Len(sessions) :
          (/\ animateRecording(s)
           /\ EncoderRecording(sessions)
           /\ sessions[s].sinceStart < duration
           /\ meshRef # 0)
              => LET y == meshes'[meshRef].rotationY
                     initial == sessions[s].initialRotationY
                     elapsed == sessions[s].sinceStart
                 IN  /\ (y - initial) * duration <= elapsed * FullTurn
                     /\ elapsed * FullTurn < (y - initial + 1) * duration
                     /\ meshes[meshRef].rotationY <= y
                     /\ initial <= y /\ y < initial + FullTurn]_vars

\* A capturing session is part way through and the Mesh part way round.
C30_Witness ==
    /\ meshRef # 0
    /\ \E s \in 1..Len(sessions) :
           /\ sessions[s].rafPending /\ sessions[s].encoder = "recording"
           /\ sessions[s].sinceStart > 0 /\ sessions[s].sinceStart < duration
           /\ meshes[meshRef].rotationY > sessions[s].initialRotationY

\* C31 as stated: from one state in which the page's isExporting is true to
\* the next in which it still is, originalImage and depthMapImage keep their
\* values.
C31_InputsFrozenWhileExporting ==
    [][(isExporting /\ isExporting') => UNCHANGED <<originalImage, depthMapImage>>]_vars

\* C32 as stated: when the page holds both an original image and a depth map,
\* the depth map is the one generated from that original image.
C32_DepthMapOfOriginal ==
    (originalImage # 0 /\ depthMapImage # 0) => depthMapImage = originalImage

\* C33 as stated: while the load issued for the current input pair is
\* pending, isLoadingAssets is true.
C33_LoadingWhileInFlight ==
    (/\ mounted
     /\ hasContent
     /\ Len(loads) > 0
     /\ loads[Len(loads)].promise = "pending")
        => isLoadingAssets

\* C34 as stated: the step in which handleGenerateDepthMap ends leaves no
\* progress timer running, isLoading false and progress 0.
C34_TimerClearedAtEnd ==
    [][(generation # <<>> /\ generation' = <<>>)
          => (progressIntervals' = 0 /\ ~isLoading' /\ progress' = 0)]_vars

\* What C35 asks of a successful result, read off the inputs of the call.
C35_MaySucceed(url, outcome) ==
    /\ StartsWith(url, HttpPrefix) \/ StartsWith(url, HttpsPrefix)
    /\ ~outcome.fetchThrows
    /\ outcome.response.ok
    /\ toLowerCase(outcome.response.contentType) \in allowedImageTypes
    /\ ~outcome.response.bodyThrows
    /\ outcome.response.byteLength <= MaxProxyBytes

\* C35: a settled call of fetchImageAsDataUrl has resolved, never rejected;
\* its result is a success carrying a data URI only for a URL starting with
\* http:// or https://, a response that is ok, of an allowed image type and
\* with a body of at most 10 MB; otherwise it is a failure with a message.
C35_ProxyNeverRejects ==
    proxyCall.state = "settled" =>
        LET result == proxyCall.result IN
        /\ result.settled = "resolved"
        /\ IF result.value.success
           THEN /\ C35_MaySucceed(proxyCall.url, proxyCall.outcome)
                /\ result.value.dataUri.mime = proxyCall.outcome.response.contentType
           ELSE result.value.error # ""
        /\ ~C35_MaySucceed(proxyCall.url, proxyCall.outcome) => ~result.value.success

\* A call whose fetch threw a timeout has settled.
C35_Witness ==
    /\ proxyCall.state = "settled"
    /\ proxyCall.outcome.fetchThrows
    /\ proxyCall.outcome.thrown.name = "TimeoutError"
    /\ StartsWith(proxyCall.url, HttpsPrefix)

=============================================================================
